---- MODULE Spec2Model ----
(***************************************************************************)
(* Long-form memory pipeline: the Store (memory_storage.py), the Retriever *)
(* (memory_retrieval.py) and the Extractor's post-processing               *)
(* (memory_extraction.py).                                                 *)
(*                                                                         *)
(* Numbers.  The code computes scores in floating point.  Here a signal in *)
(* [0,1] is an integer number of millionths (SCALE), the weights are       *)
(* tenths, the type priorities are hundredths, so a composite score is an  *)
(* integer number of 1e-9 units (SCORE_ONE is 1.0).  Text is a TLA+ string *)
(* read character by character with SubSeq.  Python's None is NULL.        *)
(***************************************************************************)
EXTENDS Integers, Sequences, FiniteSets, TLC

VARIABLES
    table,        \* the rows of the memories table (a set of records)
    seq,          \* sqlite_sequence: the largest id AUTOINCREMENT ever gave
    op,           \* the last operation and its arguments
    ret,          \* what the last operation returned
    issued,       \* history: the successful store_memory calls, <<id, memory>> in order
    accessCalls,  \* history: id -> number of update_memory_access calls that found its row
    agent,        \* the ConversationAgent: enable_memory and sessions (session_id -> turn_count)
    writers,      \* concurrent store_memory calls: each writer's position, memory and the write lock
    vectors       \* the similarity backend: the index, memory_id_map and their two files

vars == <<table, seq, op, ret, issued, accessCalls, agent, writers, vectors>>

NULL == "<None>"

\* no ConversationAgent: the Store and the Retriever are used directly
NO_AGENT == [enable_memory |-> TRUE, sessions |-> <<>>]

\* no store_memory call of a concurrent writer is in progress
NO_WRITERS == [pc |-> <<>>, memory |-> <<>>, reserved |-> NULL]

\* a file that does not exist (or cannot be read), and a file holding data
NO_FILE == [readable |-> FALSE, data |-> <<>>]
File(data) == [readable |-> TRUE, data |-> data]

\* the Store without the similarity backend (vector_search_enabled False)
NO_VECTORS == [enabled |-> FALSE, index |-> <<>>, memory_id_map |-> <<>>,
               index_file |-> NO_FILE, map_file |-> NO_FILE]

\* datetime.utcnow().isoformat() at the n-th update_memory_access call
TIMES == <<"T1", "T2", "T3", "T4", "T5", "T6", "T7", "T8", "T9">>

(***************************************************************************)
(* Bounds of the model.                                                    *)
(***************************************************************************)
MaxInserts == 3      \* successful inserts in one behaviour
MaxAccess == 2       \* no operation starts after this many update_memory_access calls
MaxMemories == 4     \* the largest max_memories asked of the ranking

SCALE == 1000000
SCORE_ONE == 1000000000

MaxOf(a, b) == IF a >= b THEN a ELSE b
MinOf(a, b) == IF a <= b THEN a ELSE b

Range(s) == {s[i] : i \in DOMAIN s}

(***************************************************************************)
(* memory_storage.py: the memories table.                                  *)
(***************************************************************************)
DUPLICATE == -1

\* the column constraints NOT NULL of CREATE TABLE
NotNullViolation(m) ==
    m.session_id = NULL \/ m.type = NULL \/ m.content = NULL

\* UNIQUE(session_id, type, key, value, source_turn): SQL compares with =,
\* and NULL = NULL is not true, so a row with a NULL in one of the columns
\* conflicts with no row.  (source_turn is an integer in every memory here.)
UniqueViolation(t, m) ==
    \E r \in t :
        /\ m.key # NULL /\ m.value # NULL
        /\ r.session_id = m.session_id
        /\ r.type = m.type
        /\ r.key = m.key
        /\ r.value = m.value
        /\ r.source_turn = m.source_turn

IntegrityError(t, m) == NotNullViolation(m) \/ UniqueViolation(t, m)

MaxRowId(t) == IF t = {} THEN 0 ELSE CHOOSE i \in {r.id : r \in t} : \A r \in t : r.id <= i

\* INTEGER PRIMARY KEY without AUTOINCREMENT: one more than the largest id in the table
NextRowIdNoAutoincrement(t, s) == MaxRowId(t) + 1

\* INTEGER PRIMARY KEY AUTOINCREMENT: one more than the largest id ever used
NextRowId(t, s) == MaxOf(s, MaxRowId(t)) + 1

\* the row INSERT writes for memory m under id i
NewRow(i, m) ==
    [id |-> i,
     session_id |-> m.session_id,
     type |-> m.type,
     content |-> m.content,
     key |-> m.key,
     value |-> m.value,
     confidence |-> m.confidence,
     source_turn |-> m.source_turn,
     created_at |-> m.created_at,
     last_accessed |-> m.last_accessed,
     access_count |-> m.access_count,
     raw_text |-> m.raw_text]

\* store_memory that overwrites the conflicting row (INSERT OR REPLACE) instead of failing
InsertOrReplace(t, s, m) ==
    IF NotNullViolation(m)
    THEN [table |-> t, seq |-> s, ret |-> DUPLICATE]
    ELSE LET i == NextRowId(t, s)
             kept == {r \in t : ~UniqueViolation({r}, m)}
         IN [table |-> kept \cup {NewRow(i, m)}, seq |-> i, ret |-> i]

\* store_memory: the table, the sequence and the returned value after INSERT
Insert(t, s, m) ==
    IF IntegrityError(t, m)
    THEN [table |-> t, seq |-> s, ret |-> DUPLICATE]
    ELSE LET i == NextRowId(t, s)
         IN [table |-> t \cup {NewRow(i, m)}, seq |-> i, ret |-> i]

\* store_memories: store_memory on each memory in order; memory_ids collects
\* the ids that are not -1, stored the memories behind them
RECURSIVE StoreMemoriesFrom(_, _)
StoreMemoriesFrom(st, memories) ==
    IF memories = <<>> THEN st
    ELSE LET r == Insert(st.table, st.seq, Head(memories))
         IN StoreMemoriesFrom(
                [table |-> r.table,
                 seq |-> r.seq,
                 memory_ids |-> IF r.ret # DUPLICATE THEN Append(st.memory_ids, r.ret)
                                ELSE st.memory_ids,
                 stored |-> IF r.ret # DUPLICATE
                            THEN Append(st.stored, [id |-> r.ret, memory |-> Head(memories)])
                            ELSE st.stored],
                Tail(memories))

\* store_memories that returns the ids last first
StoreMemoriesReversed(t, s, memories) ==
    LET st == StoreMemoriesFrom([table |-> t, seq |-> s, memory_ids |-> <<>>, stored |-> <<>>],
                                memories)
        n == Len(st.memory_ids)
    IN [st EXCEPT !.memory_ids = [i \in 1..n |-> st.memory_ids[n + 1 - i]]]

StoreMemories(t, s, memories) ==
    StoreMemoriesFrom([table |-> t, seq |-> s, memory_ids |-> <<>>, stored |-> <<>>], memories)

\* update_memory_access that also raises the confidence to 1.0
AccessedAndBoosted(r, now) ==
    [r EXCEPT !.last_accessed = now, !.access_count = @ + 1, !.confidence = SCALE]

\* update_memory_access that adds 2
AccessedTwice(r, now) == [r EXCEPT !.last_accessed = now, !.access_count = @ + 2]

\* the SET clause of update_memory_access
Accessed(r, now) == [r EXCEPT !.last_accessed = now, !.access_count = @ + 1]

\* UPDATE without its WHERE clause
UpdateAccessEveryRow(t, i, now) == {Accessed(r, now) : r \in t}

\* UPDATE memories SET ... WHERE id = ?
UpdateAccess(t, i, now) == {IF r.id = i THEN Accessed(r, now) ELSE r : r \in t}

\* DELETE that forgets its WHERE clause
DeleteAll(t, s) == {}

\* DELETE FROM memories WHERE session_id = ?
DeleteSession(t, s) == {r \in t : r.session_id # s}

\* ORDER BY source_turn: the first row (rows of equal source_turn in id
\* order), then the others
RECURSIVE OrderByTurn(_)
OrderByTurn(rows) ==
    IF rows = {} THEN <<>>
    ELSE LET r == CHOOSE r \in rows : \A q \in rows :
                      \/ r.source_turn < q.source_turn
                      \/ (r.source_turn = q.source_turn /\ r.id <= q.id)
         IN <<r>> \o OrderByTurn(rows \ {r})

\* get_session_memories(session_id, memory_type, min_confidence)
SessionMemories(t, s, memory_type, min_confidence) ==
    OrderByTurn({r \in t :
        /\ r.session_id = s
        /\ (memory_type \notin {NULL, ""} => r.type = memory_type)   \* if memory_type:
        /\ r.confidence >= min_confidence})

(***************************************************************************)
(* Text: Python's str.lower() and str.split() on the characters of a       *)
(* string.                                                                 *)
(***************************************************************************)
Char(s, i) == SubSeq(s, i, i)

UPPERCASE == "ABCDEFGHIJKLMNOPQRSTUVWXYZ"

\* the lower-case letter of each upper-case letter
LOWER_OF == [c \in {Char(UPPERCASE, i) : i \in 1..Len(UPPERCASE)} |->
                Char("abcdefghijklmnopqrstuvwxyz",
                     CHOOSE i \in 1..Len(UPPERCASE) : Char(UPPERCASE, i) = c)]

LowerChar(c) == IF c \in DOMAIN LOWER_OF THEN LOWER_OF[c] ELSE c

RECURSIVE LowerFrom(_, _)
LowerFrom(s, i) == IF i > Len(s) THEN "" ELSE LowerChar(Char(s, i)) \o LowerFrom(s, i + 1)

\* str.lower()
Lower(s) == LowerFrom(s, 1)

\* the words of s from position i on, cur being the word read so far;
\* str.split() splits at whitespace
RECURSIVE WordsFrom(_, _, _)
WordsFrom(s, i, cur) ==
    LET done == IF cur = "" THEN {} ELSE {cur}
    IN IF i > Len(s) THEN done
       ELSE IF Char(s, i) \in {" ", "\t", "\n", "\r"} THEN done \cup WordsFrom(s, i + 1, "")
       ELSE WordsFrom(s, i + 1, cur \o Char(s, i))

\* set(s.split())
Words(s) == WordsFrom(s, 1, "")

\* the texts of the model: the contents of the memories and the queries
TEXTS ==
    {"call after 11 AM", "call me later", "language is Kannada", "busy on Monday",
     "My preferred language is Kannada", "Kannada",
     "call me tomorrow", "email the report tomorrow", "text me the language later",
     "only after 11 AM", "Can you call me tomorrow?", "What language do I prefer?",
     "What", "hello"}

\* set(s.lower().split()) of each text of the model, computed once
LOWER_WORDS == [s \in TEXTS |-> Words(Lower(s))]

\* set(s.lower().split())
LowerWords(s) == IF s \in TEXTS THEN LOWER_WORDS[s] ELSE Words(Lower(s))

(***************************************************************************)
(* memory_retrieval.py: the relevance score.                               *)
(***************************************************************************)
recency_weight == 3
confidence_weight == 4
access_count_weight == 2
semantic_weight == 1

\* every type given the default priority of .get(memory_type, 0.5)
TypePriorityDefault(t) == 50

\* type_priorities, in hundredths; .get(memory_type, 0.5)
TypePriority(t) ==
    CASE t = "instruction" -> 100
      [] t = "preference" -> 90
      [] t = "commitment" -> 85
      [] t = "constraint" -> 80
      [] t = "fact" -> 70
      [] t = "entity" -> 60
      [] OTHER -> 50

\* floor(a * b / SCALE) for a, b >= 0, without leaving 32 bits
MulScale(a, b) ==
    LET ah == a \div 1000  al == a % 1000
        bh == b \div 1000  bl == b % 1000
    IN ah * bh + ((ah * bl + al * bh + (al * bl) \div 1000) \div 1000)

RECURSIVE PowScale(_, _)
PowScale(base, k) == IF k = 0 THEN SCALE ELSE MulScale(PowScale(base, k - 1), base)

\* e^(-1/100), e^(-1/10), e^(-1) and e^(1/100), e^(1/10), e^1 in millionths
EXP_DOWN == <<990050, 904837, 367879>>
EXP_UP == <<1010050, 1105171, 2718282>>

\* math.exp(n / 100) in millionths, n an integer: the product of the powers
\* of e^(+-1/100), e^(+-1/10), e^(+-1) for the digits of |n|
ExpHundredths(n) ==
    LET d == IF n < 0 THEN -n ELSE n
        c == IF n < 0 THEN EXP_DOWN ELSE EXP_UP
    IN MulScale(MulScale(PowScale(c[3], d \div 100), PowScale(c[2], (d % 100) \div 10)),
                PowScale(c[1], d % 10))

\* log10(n) in millionths for n = 1..9
LOG10_TABLE == <<0, 301030, 477121, 602060, 698970, 778151, 845098, 903090, 954243>>

\* math.log(n) / math.log(10) in millionths, n >= 1; exact to 1e-6 below 10
\* and a lower bound from 10 on, where the score clamps it to 1.0
RECURSIVE Log10Scaled(_)
Log10Scaled(n) == IF n >= 10 THEN SCALE + Log10Scaled(n \div 10) ELSE LOG10_TABLE[n]

stopwords == {"the", "a", "an", "and", "or", "but", "in", "on", "at", "to", "for", "of", "is", "are"}

\* _calculate_semantic_similarity: Jaccard similarity of the word sets, in millionths
_calculate_semantic_similarity(memory_content, query) ==
    LET memory_words == LowerWords(memory_content) \ stopwords
        query_words == LowerWords(query) \ stopwords
        intersection == Cardinality(memory_words \cap query_words)
        union == Cardinality(memory_words \cup query_words)
    IN IF memory_words = {} \/ query_words = {} THEN 0
       ELSE IF union > 0 THEN (SCALE * intersection) \div union ELSE 0

\* the recency score with the sign of the exponent lost: growth with distance
RecencyReversed(memory, current_turn) ==
    LET turn_distance == current_turn - memory.source_turn
    IN ExpHundredths(turn_distance)

\* 1. recency score: math.exp(-turn_distance / 100)
Recency(memory, current_turn) ==
    LET turn_distance == current_turn - memory.source_turn
    IN ExpHundredths(-turn_distance)

\* _calculate_relevance, in 1e-9 units
_calculate_relevance(memory, current_turn, user_message) ==
    LET recency_score == Recency(memory, current_turn)
        confidence_score == memory.confidence
        access_score == MinOf(SCALE, Log10Scaled(memory.access_count + 1))
        semantic_score == _calculate_semantic_similarity(memory.content, user_message)
        type_score == TypePriority(memory.type)
        total_score == (recency_weight * recency_score
                        + confidence_weight * confidence_score
                        + access_count_weight * access_score
                        + semantic_weight * semantic_score) * type_score
    IN MinOf(SCORE_ONE, total_score)

(***************************************************************************)
(* memory_retrieval.py: selection.                                         *)
(***************************************************************************)
\* memory_copy["relevance_score"] = relevance_score
Scored(memory, score) == [relevance_score |-> score] @@ memory

\* every memory of all_memories with its score, whatever the score
RECURSIVE ScoreAllNoThreshold(_, _, _, _)
ScoreAllNoThreshold(all_memories, current_turn, user_message, min_relevance) ==
    IF all_memories = <<>> THEN <<>>
    ELSE LET memory == Head(all_memories)
         IN <<Scored(memory, _calculate_relevance(memory, current_turn, user_message))>>
            \o ScoreAllNoThreshold(Tail(all_memories), current_turn, user_message, min_relevance)

\* the memories of all_memories scoring at least min_relevance, each with its score
RECURSIVE ScoreAll(_, _, _, _)
ScoreAll(all_memories, current_turn, user_message, min_relevance) ==
    IF all_memories = <<>> THEN <<>>
    ELSE LET memory == Head(all_memories)
             relevance_score == _calculate_relevance(memory, current_turn, user_message)
             rest == ScoreAll(Tail(all_memories), current_turn, user_message, min_relevance)
         IN IF relevance_score >= min_relevance
            THEN <<Scored(memory, relevance_score)>> \o rest
            ELSE rest

\* m put into the descending sequence sorted, after the entries scoring as much
RECURSIVE InsertDescending(_, _)
InsertDescending(sorted, m) ==
    IF sorted = <<>> THEN <<m>>
    ELSE IF Head(sorted).relevance_score >= m.relevance_score
         THEN <<Head(sorted)>> \o InsertDescending(Tail(sorted), m)
         ELSE <<m>> \o sorted

RECURSIVE SortFrom(_, _, _)
SortFrom(memories, i, sorted) ==
    IF i > Len(memories) THEN sorted
    ELSE SortFrom(memories, i + 1, InsertDescending(sorted, memories[i]))

\* the first loop of _apply_diversity_filter from position i on
RECURSIVE DiversityWalk(_, _, _, _)
DiversityWalk(memories, i, diverse, max_count) ==
    IF i > Len(memories) THEN diverse
    ELSE LET memory == memories[i]
             \* type_counts[memory_type] and seen_keys after the admissions
             \* in diverse
             type_count ==
                 Cardinality({j \in DOMAIN diverse : diverse[j].type = memory.type})
             seen_keys == {diverse[j].key : j \in DOMAIN diverse}
             admit == /\ type_count < 2
                      /\ \/ memory.key \notin seen_keys
                         \/ Len(diverse) < max_count \div 2
             admitted == Append(diverse, memory)
         IN IF admit
            THEN IF Len(admitted) >= max_count THEN admitted
                 ELSE DiversityWalk(memories, i + 1, admitted, max_count)
            ELSE DiversityWalk(memories, i + 1, diverse, max_count)

\* the second loop of _apply_diversity_filter from position i on
RECURSIVE DiversityFill(_, _, _, _)
DiversityFill(memories, i, diverse, max_count) ==
    IF i > Len(memories) THEN diverse
    ELSE IF memories[i] \notin Range(diverse)
         THEN LET filled == Append(diverse, memories[i])
              IN IF Len(filled) >= max_count THEN filled
                 ELSE DiversityFill(memories, i + 1, filled, max_count)
         ELSE DiversityFill(memories, i + 1, diverse, max_count)

\* _apply_diversity_filter(memories, max_count)
_apply_diversity_filter(memories, max_count) ==
    IF Len(memories) <= max_count THEN memories
    ELSE LET diverse_memories == DiversityWalk(memories, 1, <<>>, max_count)
         IN IF Len(diverse_memories) < max_count
            THEN DiversityFill(memories, 1, diverse_memories, max_count)
            ELSE diverse_memories

\* s[:n]
SliceTo(s, n) ==
    IF n >= 0 THEN SubSeq(s, 1, MinOf(n, Len(s)))
    ELSE SubSeq(s, 1, MaxOf(0, Len(s) + n))

\* lines 62-88 of retrieve_relevant_memories: diverse_memories
DiverseMemories(t, session_id, current_turn, user_message, max_memories, min_relevance) ==
    LET all_memories == SessionMemories(t, session_id, NULL, 0)
    IN IF all_memories = <<>> THEN <<>>
       ELSE _apply_diversity_filter(
                SortFrom(ScoreAll(all_memories, current_turn, user_message, min_relevance), 1, <<>>),
                max_memories)

\* the table after update_memory_access on each of the memories, in order,
\* the first of these calls being the n-th call
RECURSIVE UpdateAccessAll(_, _, _)
UpdateAccessAll(t, memories, n) ==
    IF memories = <<>> THEN t
    ELSE UpdateAccessAll(UpdateAccess(t, Head(memories).id, TIMES[n]), Tail(memories), n + 1)

(***************************************************************************)
(* The inputs of the model.                                                *)
(***************************************************************************)
\* a memory dictionary as extract_memories or a caller builds it
Mem(session_id, type, content, key, value, confidence, source_turn) ==
    [session_id |-> session_id,
     type |-> type,
     content |-> content,
     key |-> key,
     value |-> value,
     confidence |-> confidence,
     source_turn |-> source_turn,
     created_at |-> "T0",
     last_accessed |-> NULL,
     access_count |-> 0,
     raw_text |-> content]

Sessions == {"s1", "s2"}

\* min_relevance: float = 0.3
DEFAULT_MIN_RELEVANCE == 300000000

\* the memories stored under Spec: two of one five-tuple (differing in the
\* other fields), the same five-tuple in another session, one without a key
Memories ==
    {Mem("s1", "fact", "call after 11 AM", "k1", "v1", 800000, 1),
     Mem("s1", "fact", "call me later", "k1", "v1", 900000, 1),
     Mem("s1", "preference", "language is Kannada", "k2", "v1", 900000, 2),
     Mem("s2", "fact", "call after 11 AM", "k1", "v1", 800000, 1),
     Mem("s1", "fact", "busy on Monday", NULL, "v1", 600000, 2)}

(***************************************************************************)
(* The similarity backend of the Store: a FAISS index, the list            *)
(* memory_id_map (index position -> memory id) and the files               *)
(* data/embeddings/faiss.index and data/embeddings/id_map.pkl.  A vector   *)
(* is kept as the content the encoder computed it from.                    *)
(***************************************************************************)
SAVE_EVERY == 10

\* self.encoder.encode([content])[0]
Encode(content) == [embedding_of |-> content]

\* _load_or_create_index / _load_or_create_id_map: the data of the file, or
\* an empty index / an empty list when the file is missing or unreadable
LoadOrCreate(file) == IF file.readable THEN file.data ELSE <<>>

\* _save_index that writes faiss.index and not id_map.pkl
SaveIndexFileOnly(v) ==
    IF ~v.enabled THEN v
    ELSE [v EXCEPT !.index_file = File(v.index)]

\* _save_index
SaveIndex(v) ==
    IF ~v.enabled THEN v
    ELSE [v EXCEPT !.index_file = File(v.index), !.map_file = File(v.memory_id_map)]

\* _add_to_vector_index(memory_id, content)
AddToVectorIndex(v, memory_id, content) ==
    IF ~v.enabled THEN v
    ELSE LET added == [v EXCEPT !.index = Append(@, Encode(content)),
                                !.memory_id_map = Append(@, memory_id)]
         IN IF Len(added.memory_id_map) % SAVE_EVERY = 0 THEN SaveIndex(added) ELSE added

(***************************************************************************)
(* The operations.                                                         *)
(***************************************************************************)
TotalAccessCalls == LET RECURSIVE Sum(_)
                        Sum(S) == IF S = {} THEN 0
                                  ELSE LET i == CHOOSE j \in S : TRUE
                                       IN accessCalls[i] + Sum(S \ {i})
                    IN Sum(DOMAIN accessCalls)

\* the history of update_memory_access calls after calls on the rows ids (a sequence of ids)
RECURSIVE Counted(_, _)
Counted(calls, ids) ==
    IF ids = <<>> THEN calls
    ELSE Counted([calls EXCEPT ![Head(ids)] = @ + 1], Tail(ids))

Ids(memories) == [i \in DOMAIN memories |-> memories[i].id]

store_memory(memory) ==
    LET r == Insert(table, seq, memory)
    IN /\ IntegrityError(table, memory) \/ Len(issued) < MaxInserts
       /\ table' = r.table
       /\ seq' = r.seq
       /\ ret' = r.ret
       /\ op' = [name |-> "store_memory", memory |-> memory]
       /\ issued' = IF r.ret = DUPLICATE THEN issued
                    ELSE Append(issued, [id |-> r.ret, memory |-> memory])
       /\ accessCalls' = IF r.ret = DUPLICATE THEN accessCalls
                         ELSE (r.ret :> 0) @@ accessCalls
       /\ vectors' = IF r.ret = DUPLICATE THEN vectors
                     ELSE AddToVectorIndex(vectors, r.ret, memory.content)
       /\ UNCHANGED <<agent, writers>>

update_memory_access(memory_id) ==
    /\ TotalAccessCalls < MaxAccess
    /\ table' = UpdateAccess(table, memory_id, TIMES[TotalAccessCalls + 1])
    /\ ret' = NULL
    /\ op' = [name |-> "update_memory_access", memory_id |-> memory_id]
    /\ accessCalls' = IF \E r \in table : r.id = memory_id
                      THEN Counted(accessCalls, <<memory_id>>)
                      ELSE accessCalls
    /\ UNCHANGED <<seq, issued, agent, writers, vectors>>

delete_session_memories(session_id) ==
    /\ table' = DeleteSession(table, session_id)
    /\ ret' = NULL
    /\ op' = [name |-> "delete_session_memories", session_id |-> session_id]
    /\ UNCHANGED <<seq, issued, accessCalls, agent, writers, vectors>>

get_session_memories(session_id, memory_type, min_confidence) ==
    /\ ret' = SessionMemories(table, session_id, memory_type, min_confidence)
    /\ op' = [name |-> "get_session_memories", session_id |-> session_id,
              memory_type |-> memory_type, min_confidence |-> min_confidence]
    /\ UNCHANGED <<table, seq, issued, accessCalls, agent, writers, vectors>>

retrieve_relevant_memories(session_id, current_turn, user_message, max_memories, min_relevance) ==
    LET diverse_memories == DiverseMemories(table, session_id, current_turn, user_message,
                                            max_memories, min_relevance)
    IN /\ TotalAccessCalls < MaxAccess
       /\ table' = UpdateAccessAll(table, diverse_memories, TotalAccessCalls + 1)
       /\ ret' = SliceTo(diverse_memories, max_memories)
       /\ op' = [name |-> "retrieve_relevant_memories", session_id |-> session_id,
                 current_turn |-> current_turn, user_message |-> user_message,
                 max_memories |-> max_memories, min_relevance |-> min_relevance]
       /\ accessCalls' = Counted(accessCalls, Ids(diverse_memories))
       /\ UNCHANGED <<seq, issued, agent, writers, vectors>>

(***************************************************************************)
(* Spec: a Store that starts empty, under any sequence of operations.      *)
(***************************************************************************)
Init ==
    /\ table = {}
    /\ seq = 0
    /\ op = [name |-> "init"]
    /\ ret = NULL
    /\ issued = <<>>
    /\ accessCalls = <<>>
    /\ agent = NO_AGENT
    /\ writers = NO_WRITERS
    /\ vectors = NO_VECTORS

Next ==
    \/ \E memory \in Memories : store_memory(memory)
    \/ \E memory_id \in 1..(MaxInserts + 1) : update_memory_access(memory_id)
    \/ \E session_id \in Sessions : delete_session_memories(session_id)
    \/ \E session_id \in Sessions : get_session_memories(session_id, NULL, 0)

Spec == Init /\ [][Next]_vars

(***************************************************************************)
(* SpecRank: the Retriever on a Store that holds some of RANK_MEMORIES.    *)
(***************************************************************************)
\* the entries of s at the positions in S, in order
RECURSIVE Pick(_, _, _)
Pick(s, S, i) ==
    IF i > Len(s) THEN <<>>
    ELSE (IF i \in S THEN <<s[i]>> ELSE <<>>) \o Pick(s, S, i + 1)

\* the Store after store_memories(memories) on an empty database
Loaded(memories) ==
    LET r == StoreMemories({}, 0, memories)
    IN /\ table = r.table
       /\ seq = r.seq
       /\ issued = r.stored
       /\ accessCalls = [i \in Range(r.memory_ids) |-> 0]
       /\ agent = NO_AGENT
       /\ writers = NO_WRITERS
       /\ vectors = NO_VECTORS
       /\ op = [name |-> "init"]
       /\ ret = NULL

\* the preference of the recall scenario, three commitments of one key, an
\* entity scoring under 0.3 from turn 100 on, and a fact of another session
RANK_MEMORIES ==
    <<Mem("s1", "preference", "My preferred language is Kannada", "language", "Kannada", 900000, 1),
      Mem("s1", "commitment", "call me tomorrow", "scheduled_action", "me tomorrow", 800000, 90),
      Mem("s1", "commitment", "email the report tomorrow", "scheduled_action", "the report tomorrow", 800000, 80),
      Mem("s1", "commitment", "text me the language later", "scheduled_action", "me the language later", 800000, 70),
      Mem("s1", "entity", "Kannada", "entity_name", "Kannada", 700000, 1)>>

RANK_TURNS == {100, 120, 500}
RANK_MIN_RELEVANCE == {0, DEFAULT_MIN_RELEVANCE}
RANK_QUERIES == {"Can you call me tomorrow?", "What language do I prefer?"}

InitRank == \E S \in SUBSET (1..Len(RANK_MEMORIES)) :
                Loaded(<<Mem("s2", "fact", "call after 11 AM", "fact", "call after 11 AM", 600000, 95)>>
                       \o Pick(RANK_MEMORIES, S, 1))

NextRank ==
    \E current_turn \in RANK_TURNS, user_message \in RANK_QUERIES,
       max_memories \in 0..MaxMemories, min_relevance \in RANK_MIN_RELEVANCE :
        retrieve_relevant_memories("s1", current_turn, user_message, max_memories,
                                   min_relevance)

SpecRank == InitRank /\ [][NextRank]_vars

(***************************************************************************)
(* Claims about the Store, under Spec.                                     *)
(***************************************************************************)
SameFiveTuple(a, b) ==
    /\ a.session_id = b.session_id
    /\ a.type = b.type
    /\ a.key = b.key
    /\ a.value = b.value
    /\ a.source_turn = b.source_turn

RowIds(t) == {r.id : r \in t}

\* C1: store_memory of a memory (key and value not None) whose five-tuple
\* (session_id, type, key, value, source_turn) is that of a row of the table
\* returns -1, which is no row's id, and leaves the table as it was; and no
\* step leaves two rows of one such five-tuple in the table.
C1_DuplicateRejected ==
    [][(op'.name = "store_memory" /\ op'.memory.key # NULL /\ op'.memory.value # NULL)
        => /\ (\E r \in table : SameFiveTuple(r, op'.memory))
                => (ret' = DUPLICATE /\ table' = table)
           /\ DUPLICATE \notin RowIds(table')
           /\ \A r, q \in table' :
                (r.key # NULL /\ r.value # NULL /\ SameFiveTuple(r, q)) => r = q]_vars

\* a second insert of a five-tuple, with another content, was refused
C1_Witness ==
    /\ op.name = "store_memory"
    /\ ret = DUPLICATE
    /\ \E r \in table : SameFiveTuple(r, op.memory) /\ r.content # op.memory.content
    /\ Cardinality(table) >= 2

\* C4: a row inserted with access_count 0 has access_count equal to the
\* number of update_memory_access calls made on its id since, whatever else
\* happened to the Store, and a last_accessed once there was a call.
C4_AccessCountIsCalls ==
    \A r \in table :
        /\ r.access_count = accessCalls[r.id]
        /\ accessCalls[r.id] >= 1 => r.last_accessed # NULL

\* a row updated twice, in a Store that got other inserts
C4_Witness ==
    /\ Len(issued) >= 2
    /\ \E r \in table : r.access_count = 2 /\ r.last_accessed = TIMES[2]

\* C5: delete_session_memories(s) removes the rows of session s and no
\* other: get_session_memories(s) is then empty, and every row of another
\* session is still there, unchanged; no row appears.
C5_DeleteSessionExact ==
    [][op'.name = "delete_session_memories"
        => /\ SessionMemories(table', op'.session_id, NULL, 0) = <<>>
           /\ \A r \in table : r.session_id # op'.session_id => r \in table'
           /\ table' \subseteq table]_vars

\* a deletion that removed a row and kept a row of the other session
C5_Witness ==
    /\ op.name = "delete_session_memories"
    /\ table # {}
    /\ \E i \in DOMAIN issued :
        issued[i].memory.session_id = op.session_id /\ issued[i].id \notin RowIds(table)

\* C6: the ids successful store_memory calls returned are pairwise distinct,
\* also after deletions, and every row still carries the id it was stored
\* under.
C6_IdsNeverReused ==
    /\ \A i, j \in DOMAIN issued : issued[i].id = issued[j].id => i = j
    /\ \A r \in table : \E i \in DOMAIN issued :
          /\ issued[i].id = r.id
          /\ SameFiveTuple(r, issued[i].memory)
          /\ r.content = issued[i].memory.content

\* an insert after the row of the highest id was deleted
C6_Witness ==
    /\ op.name = "store_memory"
    /\ Len(issued) = 3
    /\ ret = issued[3].id
    /\ issued[2].id \notin RowIds(table)
    /\ issued[1].id \in RowIds(table)

(***************************************************************************)
(* Claims about the ranking, under SpecRank.                               *)
(***************************************************************************)
\* C2: retrieve_relevant_memories returns at most max_memories memories,
\* each with a composite relevance score of at least min_relevance.
C2_AtMostMaxAboveMin ==
    op.name = "retrieve_relevant_memories"
        => /\ Len(ret) <= op.max_memories
           /\ \A i \in DOMAIN ret :
                /\ ret[i].relevance_score >= op.min_relevance
                /\ ret[i].relevance_score
                       = _calculate_relevance(ret[i], op.current_turn, op.user_message)

\* a full result whose last memory came from the fill loop, one memory of
\* the session scoring under min_relevance
C2_Witness ==
    /\ op.name = "retrieve_relevant_memories"
    /\ op.max_memories = 3
    /\ Len(ret) = 3
    /\ ret[2].relevance_score < ret[3].relevance_score
    /\ \E r \in table :
          /\ r.session_id = op.session_id
          /\ r.access_count = 0
          /\ _calculate_relevance(r, op.current_turn, op.user_message) < op.min_relevance

\* C3: the memories retrieve_relevant_memories returns are in descending
\* order of relevance_score.
C3_MostRelevantFirst ==
    op.name = "retrieve_relevant_memories"
        => \A i \in 1..(Len(ret) - 1) : ret[i].relevance_score >= ret[i + 1].relevance_score

(***************************************************************************)
(* SpecRecall: the long-range recall scenarios.  Session s1 holds memories *)
(* the Extractor makes of "My preferred language is Kannada" at turn 1;    *)
(* s2 holds the constraint of the retrieval test's fixture, s3 the one the *)
(* Extractor makes of "Please call me only after 11 AM" at turn 5.         *)
(***************************************************************************)
RECALL_MEMORIES ==
    <<Mem("s1", "preference", "My preferred language is Kannada", "language", "Kannada", 900000, 1),
      Mem("s1", "entity", "Kannada", "entity_name", "Kannada", 700000, 1),
      Mem("s1", "fact", "My preferred language is Kannada", "fact",
          "My preferred language is Kannada", 600000, 1),
      Mem("s2", "constraint", "call after 11 AM", "time_constraint", "after 11 AM", 900000, 5),
      Mem("s3", "constraint", "only after 11 AM", "time_constraint", "after 11 AM", 800000, 5)>>

InitRecall == \E S \in SUBSET (1..Len(RECALL_MEMORIES)) : Loaded(Pick(RECALL_MEMORIES, S, 1))

NextRecall ==
    \E session_id \in {"s1", "s2", "s3"}, current_turn \in {100, 500, 937},
       user_message \in RANK_QUERIES, max_memories \in {1, 5} :
        retrieve_relevant_memories(session_id, current_turn, user_message, max_memories,
                                   DEFAULT_MIN_RELEVANCE)

SpecRecall == InitRecall /\ [][NextRecall]_vars

IsTimeConstraint(r) ==
    /\ r.type = "constraint"
    /\ r.key = "time_constraint"
    /\ r.value = "after 11 AM"
    /\ r.source_turn = 5
    /\ r.confidence \in {800000, 900000}

IsLanguagePreference(r) ==
    /\ r.type = "preference"
    /\ r.content = "My preferred language is Kannada"
    /\ r.source_turn = 1

\* C7: a retrieval at turn 937 for "Can you call me tomorrow?", with the
\* default min_relevance, in a session whose only row is the constraint
\* (time_constraint, "after 11 AM", turn 5, confidence 0.8 or 0.9, never
\* accessed) returns that row.
C7_ConstraintRecalled ==
    [][(/\ op'.name = "retrieve_relevant_memories"
        /\ op'.current_turn = 937
        /\ op'.user_message = "Can you call me tomorrow?"
        /\ op'.min_relevance = DEFAULT_MIN_RELEVANCE
        /\ op'.max_memories = 5)
        => \A r \in table :
              (/\ r.session_id = op'.session_id
               /\ IsTimeConstraint(r)
               /\ r.access_count = 0
               /\ \A q \in table : q.session_id = r.session_id => q = r)
                 => \E i \in DOMAIN ret' : ret'[i].id = r.id]_vars

\* C8: in a session that holds the preference "My preferred language is
\* Kannada" of turn 1 (with or without the entity and the fact extracted from
\* the same message, whatever their access counts), a retrieval for "What
\* language do I prefer?" at turn 100 or 500 with max_memories >= 1 and the
\* default min_relevance returns the preference, with a score of at least 0.3.
C8_PreferenceRecalled ==
    [][(/\ op'.name = "retrieve_relevant_memories"
        /\ op'.current_turn \in {100, 500}
        /\ op'.user_message = "What language do I prefer?"
        /\ op'.min_relevance = DEFAULT_MIN_RELEVANCE
        /\ op'.max_memories >= 1)
        => \A r \in table :
              (r.session_id = op'.session_id /\ IsLanguagePreference(r))
                 => \E i \in DOMAIN ret' :
                       /\ ret'[i].id = r.id
                       /\ ret'[i].relevance_score >= DEFAULT_MIN_RELEVANCE]_vars

\* the preference, never accessed before, returned at turn 500 with the
\* default max_memories, first of the three memories of its message
C8_Witness ==
    /\ op.name = "retrieve_relevant_memories"
    /\ op.current_turn = 500
    /\ op.user_message = "What language do I prefer?"
    /\ op.max_memories = 5
    /\ Cardinality({r \in table : r.session_id = op.session_id}) = 3
    /\ Len(ret) >= 1
    /\ IsLanguagePreference(ret[1])
    /\ ret[1].access_count = 0
    /\ ret[1].relevance_score < 340000000

(***************************************************************************)
(* SpecScore: _calculate_relevance on two memories that differ in          *)
(* source_turn only.                                                       *)
(***************************************************************************)

SCORE_SOURCE_TURNS == {1, 50, 95, 100, 105, 150}

InitScore ==
    /\ table = {}
    /\ seq = 0
    /\ issued = <<>>
    /\ accessCalls = <<>>
    /\ agent = NO_AGENT
    /\ writers = NO_WRITERS
    /\ vectors = NO_VECTORS
    /\ ret = NULL
    /\ \E memory \in {Mem("s1", "fact", "call after 11 AM", "k1", "v1", 800000, 0),
                      [Mem("s1", "preference", "language is Kannada", "language", "Kannada", 900000, 0)
                          EXCEPT !.access_count = 3],
                      [Mem("s1", "instruction", "call me tomorrow", "instruction", "me tomorrow", 990000, 0)
                          EXCEPT !.access_count = 9]},
                        a \in SCORE_SOURCE_TURNS, b \in SCORE_SOURCE_TURNS,
          current_turn \in {100, 105}, user_message \in RANK_QUERIES :
            op = [name |-> "input",
                  memories |-> <<[memory EXCEPT !.source_turn = a],
                                 [memory EXCEPT !.source_turn = b]>>,
                  current_turn |-> current_turn,
                  user_message |-> user_message]

\* the scoring loop of retrieve_relevant_memories on the two memories
ScoreEach ==
    /\ op.name = "input"
    /\ ret' = [i \in DOMAIN op.memories |->
                  _calculate_relevance(op.memories[i], op.current_turn, op.user_message)]
    /\ op' = [op EXCEPT !.name = "_calculate_relevance"]
    /\ UNCHANGED <<table, seq, issued, accessCalls, agent, writers, vectors>>

SpecScore == InitScore /\ [][ScoreEach]_vars

\* C9 as stated: of two memories that differ in source_turn only, whatever
\* the source_turns, the one nearer to current_turn scores at least as much.
C9_CloserScoresHigher ==
    op.name = "_calculate_relevance"
        => LET Distance(a, b) == IF a >= b THEN a - b ELSE b - a
           IN Distance(op.current_turn, op.memories[1].source_turn)
                 < Distance(op.current_turn, op.memories[2].source_turn)
                => ret[1] >= ret[2]

\* C9, amended: of two memories that differ in source_turn only, the one of
\* the later source_turn scores at least as much, also past current_turn;
\* so the nearer one scores at least as much when neither source_turn is
\* after current_turn.
C9_LaterScoresHigher ==
    op.name = "_calculate_relevance"
        => LET a == op.memories[1].source_turn
               b == op.memories[2].source_turn
               Distance(x, y) == IF x >= y THEN x - y ELSE y - x
           IN /\ a >= b => ret[1] >= ret[2]
              /\ (/\ a <= op.current_turn
                  /\ b <= op.current_turn
                  /\ Distance(op.current_turn, a) <= Distance(op.current_turn, b))
                    => ret[1] >= ret[2]

\* turns 100 and 50 scored at turn 105: the nearer one scores strictly more
C9_Witness ==
    /\ op.name = "_calculate_relevance"
    /\ op.current_turn = 105
    /\ op.memories[1].source_turn = 100
    /\ op.memories[2].source_turn = 50
    /\ ret[1] > ret[2]

(***************************************************************************)
(* SpecDedup: memory_extraction.py, deduplicate_memories on a sequence of  *)
(* memories.                                                               *)
(***************************************************************************)
MaxDedupLen == 3     \* the longest sequence given to deduplicate_memories

\* f"{memory['type']}:{memory['key']}:{memory['value']}"
Fingerprint(memory) == memory.type \o ":" \o memory.key \o ":" \o memory.value

\* the loop of deduplicate_memories from position i on
RECURSIVE UniqueFrom(_, _, _)
UniqueFrom(memories, i, seen) ==
    IF i > Len(memories) THEN <<>>
    ELSE LET fingerprint == Fingerprint(memories[i])
         IN IF fingerprint \notin seen
            THEN <<memories[i]>> \o UniqueFrom(memories, i + 1, seen \cup {fingerprint})
            ELSE UniqueFrom(memories, i + 1, seen)

unique_memories(memories) == UniqueFrom(memories, 1, {})

RECURSIVE SeqsUpTo(_, _)
SeqsUpTo(S, n) ==
    IF n = 0 THEN {<<>>}
    ELSE LET shorter == SeqsUpTo(S, n - 1)
         IN shorter \cup {Append(q, x) : q \in shorter, x \in S}

InitDedup ==
    /\ table = {}
    /\ seq = 0
    /\ issued = <<>>
    /\ accessCalls = <<>>
    /\ agent = NO_AGENT
    /\ writers = NO_WRITERS
    /\ vectors = NO_VECTORS
    /\ ret = NULL
    /\ \E memories \in SeqsUpTo([type : {"fact", "entity"}, key : {"a", "a:b"}, value : {"c", "b:c"}], MaxDedupLen) :
          op = [name |-> "input", memories |-> memories]

deduplicate_memories ==
    /\ op.name = "input"
    /\ ret' = unique_memories(op.memories)
    /\ op' = [op EXCEPT !.name = "deduplicate_memories"]
    /\ UNCHANGED <<table, seq, issued, accessCalls, agent, writers, vectors>>

SpecDedup == InitDedup /\ [][deduplicate_memories]_vars

\* C10: deduplicate_memories returns the memories that no earlier memory of
\* the sequence equals in type, key and value, in their order, whatever the
\* characters of the keys and values.
C10_FirstOfEachTuple ==
    op.name = "deduplicate_memories"
        => LET SameTuple(a, b) == a.type = b.type /\ a.key = b.key /\ a.value = b.value
           IN ret = Pick(op.memories,
                         {i \in DOMAIN op.memories :
                             \A j \in 1..(i - 1) : ~SameTuple(op.memories[j], op.memories[i])},
                         1)

(***************************************************************************)
(* SpecSearch: search_memories_by_content on a Store whose vector search   *)
(* is disabled (vector_search_enabled False), so that every search is      *)
(* _text_search.                                                           *)
(***************************************************************************)
\* SQLite's LIKE of text s from position j against pattern p from position
\* i: % matches any run of characters, _ any one character, every other
\* character itself without regard to ASCII case
RECURSIVE LikeFrom(_, _, _, _)
LikeFrom(p, i, s, j) ==
    IF i > Len(p) THEN j > Len(s)
    ELSE IF Char(p, i) = "%"
         THEN LikeFrom(p, i + 1, s, j) \/ (j <= Len(s) /\ LikeFrom(p, i, s, j + 1))
    ELSE IF Char(p, i) = "_"
         THEN j <= Len(s) /\ LikeFrom(p, i + 1, s, j + 1)
    ELSE /\ j <= Len(s)
         /\ LowerChar(Char(p, i)) = LowerChar(Char(s, j))
         /\ LikeFrom(p, i + 1, s, j + 1)

\* s LIKE p; a NULL column is LIKE nothing
Like(s, p) == s # NULL /\ LikeFrom(p, 1, s, 1)

SEARCH_QUERIES == {"language", "LANG", "100%", "11_am", "x"}

\* the memories of the search scenario: two of one confidence, one whose
\* value is None, one of another session
SEARCH_MEMORIES ==
    <<Mem("s1", "preference", "language is Kannada", "language", "Kannada", 900000, 1),
      Mem("s1", "fact", "budget is 1000", "fact", "1000", 600000, 2),
      Mem("s1", "fact", "discount is 100%", "fact", "100%", 800000, 3),
      Mem("s1", "constraint", "after 11 AM", "time_constraint", NULL, 800000, 5),
      Mem("s2", "preference", "Language is Hindi", "language", "Hindi", 900000, 1)>>

SEARCH_TEXTS == UNION {{SEARCH_MEMORIES[i].content, SEARCH_MEMORIES[i].value} :
                          i \in DOMAIN SEARCH_MEMORIES} \ {NULL}

\* content LIKE '%query%' for the texts and queries of the scenario, computed once
LIKE_TABLE == [query \in SEARCH_QUERIES |->
                 [s \in SEARCH_TEXTS |-> Like(s, "%" \o query \o "%")]]

LikeQuery(s, query) ==
    IF s \in SEARCH_TEXTS /\ query \in SEARCH_QUERIES THEN LIKE_TABLE[query][s]
    ELSE Like(s, "%" \o query \o "%")

\* _text_search.  rows are the rows the WHERE clause selects: "if
\* session_id:" takes None and "" for no session filter.  ORDER BY
\* confidence DESC LIMIT top_k: the order of rows of equal confidence is the
\* database's choice; a negative LIMIT is no limit
TextSearch(t, query, session_id, top_k) ==
    LET rows == {r \in t :
                    /\ session_id \notin {NULL, ""} => r.session_id = session_id
                    /\ LikeQuery(r.content, query) \/ LikeQuery(r.value, query)}
        n == Cardinality(rows)
        limit == IF top_k < 0 THEN n ELSE MinOf(top_k, n)
    IN {s \in [1..limit -> rows] :
          /\ \A i, j \in 1..limit : i < j =>
                (s[i] # s[j] /\ s[i].confidence >= s[j].confidence)
          /\ \A r \in rows : (\A i \in 1..limit : s[i] # r) =>
                \A i \in 1..limit : s[i].confidence >= r.confidence}

\* the loop of lines 282-295 over indices from position i on
RECURSIVE VectorWalk(_, _, _, _, _, _, _)
VectorWalk(t, v, indices, i, memories, session_id, top_k) ==
    IF i > Len(indices) THEN memories
    ELSE LET idx == indices[i]
             \* self.memory_id_map[idx]: idx counts from 0, a negative idx
             \* from the end
             memory_id == IF idx >= 0 THEN v.memory_id_map[idx + 1]
                          ELSE v.memory_id_map[Len(v.memory_id_map) + 1 + idx]
             found == /\ idx < Len(v.memory_id_map)
                      /\ \E r \in t : r.id = memory_id
             memory == CHOOSE r \in t : r.id = memory_id
         IN IF found /\ (session_id = NULL \/ memory.session_id = session_id)
            THEN LET appended == Append(memories, memory)
                 IN IF Len(appended) >= top_k THEN appended
                    ELSE VectorWalk(t, v, indices, i + 1, appended, session_id, top_k)
            ELSE VectorWalk(t, v, indices, i + 1, memories, session_id, top_k)

\* the similarity path of search_memories_by_content (lines 275-297), k of
\* index.search being 1 or more.  indices[0] of index.search holds the
\* positions of k vectors of the index, the nearest first (which these are
\* is the encoder's matter: any positions in any order), filled with -1
\* when the index holds fewer than k vectors
VectorSearch(t, v, session_id, top_k) ==
    LET k == MinOf(top_k * 2, Len(v.memory_id_map))
        found == MinOf(k, Len(v.index))
        SearchIndices ==
            {c \in [1..k -> (-1)..(Len(v.index) - 1)] :
                /\ \A i \in 1..found : c[i] >= 0 /\ \A j \in 1..(i - 1) : c[j] # c[i]
                /\ \A i \in (found + 1)..k : c[i] = -1}
    IN {VectorWalk(t, v, indices, 1, <<>>, session_id, top_k) : indices \in SearchIndices}

\* search_memories_by_content.  op.raised is the exception the call raised
\* (NULL for none).  With the backend active and k = min(top_k * 2,
\* len(memory_id_map)) < 1, index.search either fails its check of k
\* (AssertionError) or finds nothing, as the FAISS build has it.
search_memories_by_content(query, session_id, top_k) ==
    /\ \E raised \in {NULL, "AssertionError"} :
          /\ op' = [name |-> "search_memories_by_content", query |-> query,
                    session_id |-> session_id, top_k |-> top_k, raised |-> raised]
          /\ IF ~vectors.enabled
             THEN /\ raised = NULL
                  /\ ret' \in TextSearch(table, query, session_id, top_k)
             ELSE IF MinOf(top_k * 2, Len(vectors.memory_id_map)) < 1
             THEN ret' = <<>>
             ELSE /\ raised = NULL
                  /\ ret' \in VectorSearch(table, vectors, session_id, top_k)
    /\ UNCHANGED <<table, seq, issued, accessCalls, agent, writers, vectors>>

InitSearch == \E S \in SUBSET (1..Len(SEARCH_MEMORIES)) : Loaded(Pick(SEARCH_MEMORIES, S, 1))

NextSearch ==
    \E query \in SEARCH_QUERIES, session_id \in Sessions, top_k \in {0, 1, 2, 5} :
        search_memories_by_content(query, session_id, top_k)

SpecSearch == InitSearch /\ [][NextSearch]_vars

\* C11: with vector search disabled, search_memories_by_content(q, s, k)
\* returns at most k rows, all of session s, each with q as a literal
\* substring (ASCII case aside) of its content or its value, in descending
\* order of confidence, whatever the characters of q.
C11_LiteralSubstringSearch ==
    op.name = "search_memories_by_content"
        => LET Contains(s, q) ==
                   /\ s # NULL
                   /\ \E k \in 1..(Len(s) - Len(q) + 1) :
                         Lower(SubSeq(s, k, k + Len(q) - 1)) = Lower(q)
           IN /\ Len(ret) <= op.top_k
              /\ \A i \in DOMAIN ret :
                    /\ ret[i].session_id = op.session_id
                    /\ Contains(ret[i].content, op.query) \/ Contains(ret[i].value, op.query)
              /\ \A i \in 1..(Len(ret) - 1) : ret[i].confidence >= ret[i + 1].confidence

(***************************************************************************)
(* SpecConstruct: MemoryStorage(db_path) on a database file that holds any *)
(* of SEARCH_MEMORIES from an earlier run, with the backend libraries      *)
(* importable or not and the backend's initialisation raising or not.      *)
(***************************************************************************)

IsLocalOfInit(name) ==
    LET assigned == {"VECTOR_SEARCH_AVAILABLE"}     \* line 52
        declared_global == {}                       \* __init__ has no global statement
    IN name \in assigned \ declared_global

\* the outcome of __init__: the exception it raises (NULL for none) and the
\* vector_search_enabled of the instance it returns.  importable is the
\* module's VECTOR_SEARCH_AVAILABLE after the imports of lines 14-20,
\* init_raises whether the try block of lines 45-49 raises.
Construct(importable, init_raises) ==
    IF IsLocalOfInit("VECTOR_SEARCH_AVAILABLE")
    THEN \* line 44 reads the local before any assignment to it
         [raised |-> "UnboundLocalError", vector_search_enabled |-> NULL]
    ELSE [raised |-> NULL,
          vector_search_enabled |-> importable /\ ~init_raises]

InitConstruct ==
    /\ \E S \in SUBSET (1..Len(SEARCH_MEMORIES)) :
          LET r == StoreMemories({}, 0, Pick(SEARCH_MEMORIES, S, 1))
          IN /\ table = r.table
             /\ seq = r.seq
             /\ issued = r.stored
             /\ accessCalls = [i \in Range(r.memory_ids) |-> 0]
             /\ agent = NO_AGENT
             /\ writers = NO_WRITERS
             /\ vectors = NO_VECTORS
    /\ ret = NULL
    /\ \E importable \in BOOLEAN, init_raises \in BOOLEAN :
          op = [name |-> "input", importable |-> importable, init_raises |-> init_raises]

\* MemoryStorage.__init__: _init_database keeps the rows of an existing
\* table (CREATE TABLE IF NOT EXISTS), then the backend is initialised
MemoryStorage ==
    /\ op.name = "input"
    /\ ret' = Construct(op.importable, op.init_raises)
    /\ op' = [op EXCEPT !.name = "MemoryStorage"]
    /\ UNCHANGED <<table, seq, issued, accessCalls, agent, writers, vectors>>

SpecConstruct == InitConstruct /\ [][MemoryStorage]_vars

\* C12: MemoryStorage(...) raises nothing, whether the backend libraries are
\* importable or not and whether the backend's initialisation raises or not,
\* and the instance has vector search disabled when the backend is
\* unavailable or failed.
C12_ConstructorNeverFails ==
    op.name = "MemoryStorage"
        => /\ ret.raised = NULL
           /\ (~op.importable \/ op.init_raises) => ret.vector_search_enabled = FALSE

(***************************************************************************)
(* SpecNegative: retrieve_relevant_memories with max_memories < 0 on the   *)
(* Stores of SpecRank.                                                     *)
(***************************************************************************)
NextNegative ==
    \E current_turn \in RANK_TURNS, user_message \in RANK_QUERIES,
       max_memories \in (-MaxMemories)..(-1), min_relevance \in RANK_MIN_RELEVANCE :
        retrieve_relevant_memories("s1", current_turn, user_message, max_memories,
                                   min_relevance)

SpecNegative == InitRank /\ [][NextNegative]_vars

\* C13: retrieve_relevant_memories with max_memories < 0 is rejected before
\* anything is scored: it leaves every row of the table as it was (no
\* access_count, no last_accessed changes) and makes no update_memory_access
\* call.
C13_NegativeMaxRejected ==
    [][(op'.name = "retrieve_relevant_memories" /\ op'.max_memories < 0)
        => (table' = table /\ accessCalls' = accessCalls)]_vars

(***************************************************************************)
(* conversation_agent.py: ConversationAgent.process_turn.  Clock readings  *)
(* are not modelled: every latency of the performance block is 0.          *)
(***************************************************************************)
MaxTurn == 2         \* the largest turn number of a session

AGENT_MAX_MEMORIES == 5
AGENT_MIN_CONFIDENCE == 600000

AGENT_MESSAGES == {"My preferred language is Kannada", "What language do I prefer?", "hello"}

\* extract_memories(user_message, ...) before the metadata is added: what
\* the patterns of the Extractor give on each message of AGENT_MESSAGES, in
\* order, as <<type, content, key, value, confidence>>
EXTRACTED ==
    [user_message \in AGENT_MESSAGES |->
        CASE user_message = "My preferred language is Kannada" ->
                <<<<"preference", "My preferred language is Kannada", "language", "Kannada", 900000>>,
                  <<"preference", "language is Kannada", "language", "Kannada", 900000>>,
                  <<"entity", "Kannada", "entity_name", "Kannada", 700000>>,
                  <<"fact", "My preferred language is Kannada", "fact",
                    "My preferred language is Kannada", 600000>>,
                  <<"fact", "My preferred language is Kannada", "fact",
                    "My preferred language is Kannada", 600000>>>>
          [] user_message = "What language do I prefer?" ->
                <<<<"entity", "What", "entity_name", "What", 700000>>>>
          [] OTHER -> <<>>]

\* extract_memories: the memories of the message with their metadata
extract_memories(user_message, turn_number, session_id) ==
    [i \in DOMAIN EXTRACTED[user_message] |->
        LET e == EXTRACTED[user_message][i]
        IN [Mem(session_id, e[1], e[2], e[3], e[4], e[5], turn_number)
               EXCEPT !.raw_text = user_message]]

\* filter_memories
filter_memories(memories, min_confidence) ==
    LET Keep(m) == m.confidence >= min_confidence
    IN SelectSeq(memories, Keep)

\* "sub in s" of Python, for strings
InStr(sub, s) ==
    \E k \in 1..(Len(s) - Len(sub) + 1) : SubSeq(s, k, k + Len(sub) - 1) = sub

\* word in message_lower, for the messages of the model, computed once
IN_MESSAGE == [user_message \in AGENT_MESSAGES |->
                 {word \in {"call", "tomorrow", "language", "preferred language", "my name is",
                            "call me", "hello", "hi", "hey"} :
                      InStr(word, Lower(user_message))}]

\* _generate_response
_generate_response(user_message, memory_context, turn_number, relevant_memories) ==
    LET found == IN_MESSAGE[user_message]
        time_constraints == SelectSeq(relevant_memories,
                                LAMBDA m : m.type = "constraint" /\ InStr("time", Lower(m.key)))
        name_prefs == SelectSeq(relevant_memories,
                                LAMBDA m : m.type = "preference" /\ m.key = "name")
    IN IF "call" \in found /\ "tomorrow" \in found
       THEN IF time_constraints # <<>>
            THEN "I'll make sure to call you tomorrow " \o time_constraints[1].value
                     \o " as you preferred."
            ELSE "I'll call you tomorrow. What time works best for you?"
       ELSE IF "language" \in found \/ "preferred language" \in found
       THEN "I'll remember your language preference for our future conversations."
       ELSE IF "my name is" \in found \/ "call me" \in found
       THEN "Got it! I'll remember that."
       ELSE IF {"hello", "hi", "hey"} \cap found # {}
       THEN IF name_prefs # <<>>
            THEN "Hello " \o name_prefs[1].value \o "! How can I help you today?"
            ELSE "Hello! How can I help you today?"
       ELSE IF memory_context # ""
       THEN "I understand. Based on what I remember about you, I'll keep that in mind. How else can I assist you?"
       ELSE "I understand. How can I help you with that?"

\* the condition of line 90 without "turn_number > 1"
RetrievesOnEveryTurn(enable_memory, retrieve_memories, turn_number) ==
    enable_memory /\ retrieve_memories

\* if self.enable_memory and retrieve_memories and turn_number > 1:
Retrieves(enable_memory, retrieve_memories, turn_number) ==
    enable_memory /\ retrieve_memories /\ turn_number > 1

\* process_turn.  turn_number is <<>> for None and <<n>> for the number n.
\* The local variable retrieval_time is bound only inside the retrieval
\* block (line 100) and read by line 183 whenever retrieve_memories is true;
\* extraction_time is bound (line 149) whenever line 185 reads it.
process_turn(session_id, user_message, turn_number, retrieve_memories) ==
    LET turn_count == IF session_id \in DOMAIN agent.sessions
                      THEN agent.sessions[session_id] ELSE 0
        number == IF turn_number = <<>> THEN turn_count + 1 ELSE turn_number[1]
        new_turn_count == IF turn_number = <<>> THEN turn_count + 1
                          ELSE MaxOf(turn_count, turn_number[1])
        \* Step 1
        retrieves == Retrieves(agent.enable_memory, retrieve_memories, number)
        diverse_memories ==
            IF retrieves
            THEN DiverseMemories(table, session_id, number, user_message,
                                 AGENT_MAX_MEMORIES, DEFAULT_MIN_RELEVANCE)
            ELSE <<>>
        relevant_memories == SliceTo(diverse_memories, AGENT_MAX_MEMORIES)
        accessed == UpdateAccessAll(table, diverse_memories, TotalAccessCalls + 1)
        \* Step 2: the first line of format_memories_for_prompt
        memory_context == IF relevant_memories # <<>> THEN "## Active Memories" ELSE ""
        \* Step 3
        assistant_response ==
            _generate_response(user_message, memory_context, number, relevant_memories)
        \* Step 4
        unique ==
            IF agent.enable_memory
            THEN unique_memories(filter_memories(
                     extract_memories(user_message, number, session_id), AGENT_MIN_CONFIDENCE))
            ELSE <<>>
        stored == IF unique # <<>> THEN StoreMemories(accessed, seq, unique)
                  ELSE [table |-> accessed, seq |-> seq, memory_ids |-> <<>>, stored |-> <<>>]
        \* zip(unique_memories, memory_ids), every mid being other than -1
        extracted_memories ==
            [i \in 1..MinOf(Len(unique), Len(stored.memory_ids)) |-> unique[i]]
        retrieval_time_unbound == ~retrieves
        response ==
            [session_id |-> session_id,
             turn_number |-> number,
             user_message |-> user_message,
             assistant_response |-> assistant_response,
             active_memories |->
                 [i \in DOMAIN relevant_memories |->
                     [memory_id |-> relevant_memories[i].id,
                      content |-> relevant_memories[i].content,
                      type |-> relevant_memories[i].type,
                      origin_turn |-> relevant_memories[i].source_turn,
                      relevance_score |-> relevant_memories[i].relevance_score]],
             extracted_memories |->
                 [i \in DOMAIN extracted_memories |->
                     [content |-> extracted_memories[i].content,
                      type |-> extracted_memories[i].type,
                      confidence |-> extracted_memories[i].confidence]],
             performance |->
                 [total_latency_ms |-> 0, retrieval_latency_ms |-> 0,
                  response_latency_ms |-> 0, extraction_latency_ms |-> 0]]
    IN /\ new_turn_count <= MaxTurn
       /\ TotalAccessCalls < MaxAccess
       /\ table' = stored.table
       /\ seq' = stored.seq
       /\ issued' = issued \o stored.stored
       /\ accessCalls' = Counted([i \in Range(stored.memory_ids) |-> 0] @@ accessCalls,
                                 Ids(diverse_memories))
       /\ agent' = [agent EXCEPT !.sessions = (session_id :> new_turn_count) @@ @]
       /\ UNCHANGED <<writers, vectors>>
       /\ op' = [name |-> "process_turn", session_id |-> session_id,
                 user_message |-> user_message, turn_number |-> turn_number,
                 retrieve_memories |-> retrieve_memories]
       /\ ret' = IF retrieve_memories /\ retrieval_time_unbound
                 THEN [raised |-> "UnboundLocalError", response |-> NULL]
                 ELSE [raised |-> NULL, response |-> response]

(***************************************************************************)
(* SpecAgent: a ConversationAgent over an empty database, memory enabled   *)
(* or not.                                                                 *)
(***************************************************************************)

InitAgent ==
    /\ table = {}
    /\ seq = 0
    /\ op = [name |-> "init"]
    /\ ret = NULL
    /\ issued = <<>>
    /\ accessCalls = <<>>
    /\ \E enable_memory \in BOOLEAN :
          agent = [enable_memory |-> enable_memory, sessions |-> <<>>]
    /\ writers = NO_WRITERS
    /\ vectors = NO_VECTORS

NextAgent ==
    \E session_id \in {"s1"}, user_message \in AGENT_MESSAGES,
       turn_number \in {<<>>} \cup {<<n>> : n \in 1..MaxTurn}, retrieve_memories \in BOOLEAN :
        process_turn(session_id, user_message, turn_number, retrieve_memories)

SpecAgent == InitAgent /\ [][NextAgent]_vars

\* C14: process_turn with the default retrieve_memories raises nothing, on
\* the first turn of a session as on any other, and returns a response with
\* assistant_response, extracted_memories and a performance block holding
\* total_latency_ms.
C14_ProcessTurnCompletes ==
    (op.name = "process_turn" /\ op.retrieve_memories)
        => /\ ret.raised = NULL
           /\ {"assistant_response", "extracted_memories", "performance"}
                 \subseteq DOMAIN ret.response
           /\ "total_latency_ms" \in DOMAIN ret.response.performance

(***************************************************************************)
(* SpecBatch: store_memories on batches that hold duplicates of the table, *)
(* duplicates of their own earlier records, a record without key and a     *)
(* record without content.                                                 *)
(***************************************************************************)

store_memories(memories) ==
    LET r == StoreMemories(table, seq, memories)
    IN /\ Len(issued) + Len(memories) <= MaxInserts
       /\ table' = r.table
       /\ seq' = r.seq
       /\ ret' = r.memory_ids
       /\ op' = [name |-> "store_memories", memories |-> memories]
       /\ issued' = issued \o r.stored
       /\ accessCalls' = [i \in Range(r.memory_ids) |-> 0] @@ accessCalls
       /\ UNCHANGED <<agent, writers, vectors>>

NextBatch ==
    \E memories \in SeqsUpTo((Memories \cup {Mem("s1", "fact", NULL, "k3", "v1", 700000, 3)}), MaxInserts) :
                                               store_memories(memories)

SpecBatch == Init /\ [][NextBatch]_vars

ACCEPT_MEMORIES ==
    {Mem("s1", "preference", "language is Kannada", "language", "Kannada", 900000, 1),
     Mem("s1", "fact", "call after 11 AM", "fact", "after 11 AM", 1700000, 2),
     Mem("s1", "fact", "busy on Monday", "fact", "Monday", -500000, 3),
     [Mem("s2", "entity", "Kannada", "entity_name", "Kannada", 700000, 1)
         EXCEPT !.access_count = -3],
     Mem("s2", "constraint", "call after 11 AM", "time_constraint", "after 11 AM", 0, 2),
     Mem("s2", "instruction", "always reply in Kannada", "instruction", "reply in Kannada",
         SCALE, 3)}

NextAccept ==
    \/ \E memory \in ACCEPT_MEMORIES : store_memory(memory)
    \/ \E memory_id \in 1..MaxInserts : update_memory_access(memory_id)

SpecAccept == Init /\ [][NextAccept]_vars

\* C16: every row of the table has a confidence between 0 and 1 and an
\* access_count of 0 or more, after every store_memory and after every
\* update_memory_access.
C16_ConfidenceAndCountInRange ==
    \A r \in table :
        /\ 0 <= r.confidence /\ r.confidence <= SCALE
        /\ r.access_count >= 0

(***************************************************************************)
(* SpecLookup: get_memory and update_memory_access on ids of rows, of      *)
(* deleted rows and of no row at all.                                      *)
(***************************************************************************)
\* SELECT * FROM memories WHERE id = ?; fetchone()
get_memory(memory_id) ==
    /\ ret' = IF \E r \in table : r.id = memory_id
              THEN CHOOSE r \in table : r.id = memory_id
              ELSE NULL
    /\ op' = [name |-> "get_memory", memory_id |-> memory_id]
    /\ UNCHANGED <<table, seq, issued, accessCalls, agent, writers, vectors>>

NextLookup ==
    \/ \E memory \in {Mem("s1", "fact", "call after 11 AM", "k1", "v1", 800000, 1),
                      Mem("s1", "preference", "language is Kannada", "k2", "v1", 900000, 2),
                      Mem("s2", "fact", "call after 11 AM", "k1", "v1", 800000, 1)} :
                        store_memory(memory)
    \/ \E session_id \in Sessions : delete_session_memories(session_id)
    \/ \E memory_id \in 0..(MaxInserts + 1) : get_memory(memory_id)
    \/ \E memory_id \in 0..(MaxInserts + 1) : update_memory_access(memory_id)

SpecLookup == Init /\ [][NextLookup]_vars

NextList ==
    \/ \E memory \in ACCEPT_MEMORIES : store_memory(memory)
    \/ \E session_id \in Sessions, memory_type \in {NULL, "", "fact", "preference"},
          min_confidence \in {0, 700000} :
            get_session_memories(session_id, memory_type, min_confidence)

SpecList == Init /\ [][NextList]_vars

\* C18: get_session_memories(s, type, min_confidence) returns, each once and
\* by ascending source_turn, the rows of session s whose type is the filter
\* (when one is given) and whose confidence is min_confidence or more; with
\* no type filter and min_confidence 0.0 these are all the rows of s, as many
\* as were stored for s, and no row of another session.
C18_SessionListingExact ==
    op.name = "get_session_memories" =>
        LET s == op.session_id
            rows == {r \in table :
                        /\ r.session_id = s
                        /\ (op.memory_type # NULL => r.type = op.memory_type)
                        /\ r.confidence >= op.min_confidence}
        IN /\ Range(ret) = rows
           /\ Len(ret) = Cardinality(rows)
           /\ \A i, j \in DOMAIN ret : i < j => ret[i].source_turn <= ret[j].source_turn
           /\ (op.memory_type = NULL /\ op.min_confidence = 0)
                => /\ Range(ret) = {r \in table : r.session_id = s}
                   /\ Len(ret) = Cardinality({i \in DOMAIN issued :
                                                 issued[i].memory.session_id = s})

(***************************************************************************)
(* SpecCritical: retrieve_critical_memories over preloaded Stores.         *)
(***************************************************************************)
CRITICAL_MAX_MEMORIES == 3
PREFERENCE_MAX_MEMORIES == 5
HIGH_CONFIDENCE == 800000

\* retrieve_by_type: the rows of get_session_memories(session_id, memory_type)
\* sorted by (confidence, -source_turn) in reverse, cut to max_memories (0 or
\* more).  The sort is stable, rows of one confidence and one source_turn
\* stay in the order of the SELECT, which is the database's choice.
retrieve_by_type(t, session_id, memory_type, max_memories) ==
    LET rows == Range(SessionMemories(t, session_id, memory_type, 0))
        limit == MinOf(max_memories, Cardinality(rows))
        Before(a, b) ==
            \/ a.confidence > b.confidence
            \/ a.confidence = b.confidence /\ a.source_turn <= b.source_turn
    IN {s \in [1..limit -> rows] :
          /\ \A i, j \in 1..limit : i < j => (s[i] # s[j] /\ Before(s[i], s[j]))
          /\ \A r \in rows : (\A i \in 1..limit : s[i] # r) =>
                \A i \in 1..limit : Before(s[i], r)}

retrieve_critical_memories(session_id, current_turn) ==
    /\ \E instructions \in retrieve_by_type(table, session_id, "instruction",
                                            CRITICAL_MAX_MEMORIES),
          commitments \in retrieve_by_type(table, session_id, "commitment",
                                           CRITICAL_MAX_MEMORIES),
          preferences \in retrieve_by_type(table, session_id, "preference",
                                           PREFERENCE_MAX_MEMORIES) :
          ret' = instructions \o commitments
                 \o SelectSeq(preferences, LAMBDA p : p.confidence > HIGH_CONFIDENCE)
    /\ op' = [name |-> "retrieve_critical_memories", session_id |-> session_id,
              current_turn |-> current_turn]
    /\ UNCHANGED <<table, seq, issued, accessCalls, agent, writers, vectors>>

CRITICAL_MEMORIES ==
    <<Mem("s1", "instruction", "always reply in Kannada", "instruction", "reply in Kannada",
          800000, 1),
      Mem("s1", "instruction", "never call before 11 AM", "instruction", "call before 11 AM",
          800000, 2),
      Mem("s1", "instruction", "always confirm the time", "instruction", "confirm the time",
          900000, 3),
      Mem("s1", "instruction", "never share my number", "instruction", "share my number",
          800000, 3),
      Mem("s1", "commitment", "call me tomorrow", "scheduled_action", "me tomorrow", 800000, 4),
      Mem("s1", "preference", "language is Kannada", "language", "Kannada", 900000, 1),
      Mem("s1", "preference", "I like tea", "preference", "tea", 800000, 5),
      Mem("s2", "instruction", "always reply in Hindi", "instruction", "reply in Hindi",
          800000, 1)>>

InitCritical ==
    \E S \in SUBSET (1..Len(CRITICAL_MEMORIES)) : Loaded(Pick(CRITICAL_MEMORIES, S, 1))

NextCritical ==
    \E session_id \in Sessions, current_turn \in {6, 100} :
        retrieve_critical_memories(session_id, current_turn)

SpecCritical == InitCritical /\ [][NextCritical]_vars

\* C19: the result of retrieve_critical_memories(s, turn) holds every
\* instruction row of session s, every commitment row of session s and every
\* preference row of session s whose confidence is above 0.8, however many
\* rows the table holds.
C19_AllCriticalSurfaced ==
    op.name = "retrieve_critical_memories" =>
        \A r \in table :
            (/\ r.session_id = op.session_id
             /\ \/ r.type \in {"instruction", "commitment"}
                \/ r.type = "preference" /\ r.confidence > HIGH_CONFIDENCE)
                => r \in Range(ret)

(***************************************************************************)
(* SpecWriters: two concurrent calls of store_memory, each on a connection *)
(* of its own (sqlite3.connect(self.db_path), timeout 5 s) to the one      *)
(* database file.  A writer's INSERT takes the database's write lock and   *)
(* holds it until its commit; the INSERT of the other writer, finding the  *)
(* lock taken, is retried by the busy handler until the lock is free or    *)
(* the timeout has passed, and then raises sqlite3.OperationalError.       *)
(***************************************************************************)
Writers == {"w1", "w2"}

Returned(memory_id) == [state |-> "returned", memory_id |-> memory_id, error |-> NULL]

\* cursor.execute(INSERT ...) of writer w while no other writer holds the
\* write lock: IntegrityError (return -1, connection closed), or the row is
\* written to w's transaction and the lock is w's
execute_insert(w) ==
    /\ writers.pc[w] = "execute"
    /\ writers.reserved = NULL
    /\ IF IntegrityError(table, writers.memory[w])
       THEN /\ writers' = [writers EXCEPT !.pc[w] = "done"]
            /\ ret' = [ret EXCEPT ![w] = Returned(DUPLICATE)]
       ELSE /\ writers' = [writers EXCEPT !.pc[w] = "commit", !.reserved = w]
            /\ ret' = ret
    /\ UNCHANGED <<table, seq, op, issued, accessCalls, agent, vectors>>

\* cursor.execute(INSERT ...) of writer w while the other writer holds the
\* write lock for longer than the connection's timeout: OperationalError,
\* which store_memory does not catch; finally: conn.close()
execute_locked(w) ==
    /\ writers.pc[w] = "execute"
    /\ writers.reserved \notin {NULL, w}
    /\ writers' = [writers EXCEPT !.pc[w] = "done"]
    /\ ret' = [ret EXCEPT ![w] = [state |-> "raised", memory_id |-> 0,
                                  error |-> "OperationalError: database is locked"]]
    /\ UNCHANGED <<table, seq, op, issued, accessCalls, agent, vectors>>

\* memory_id = cursor.lastrowid; conn.commit(); return memory_id
commit(w) ==
    LET r == Insert(table, seq, writers.memory[w])
    IN /\ writers.pc[w] = "commit"
       /\ table' = r.table
       /\ seq' = r.seq
       /\ ret' = [ret EXCEPT ![w] = Returned(r.ret)]
       /\ writers' = [writers EXCEPT !.pc[w] = "done", !.reserved = NULL]
       /\ issued' = Append(issued, [id |-> r.ret, memory |-> writers.memory[w]])
       /\ accessCalls' = (r.ret :> 0) @@ accessCalls
       /\ UNCHANGED <<op, agent, vectors>>

\* rows of other five-tuples that are in the table before the writers start
WRITER_STORED ==
    <<Mem("s1", "preference", "I like tea", "preference", "tea", 800000, 1),
      Mem("s2", "fact", "busy on Monday", "fact", "Monday", 600000, 3)>>

InitWriters ==
    \E S \in SUBSET (1..Len(WRITER_STORED)) :
        LET r == StoreMemories({}, 0, Pick(WRITER_STORED, S, 1))
        IN /\ table = r.table
           /\ seq = r.seq
           /\ issued = r.stored
           /\ accessCalls = [i \in Range(r.memory_ids) |-> 0]
           /\ agent = NO_AGENT
           /\ op = [name |-> "store_memory"]
           /\ ret = [w \in Writers |-> [state |-> "running", memory_id |-> 0, error |-> NULL]]
           /\ \E memory \in [Writers -> {Mem("s1", "fact", "call after 11 AM", "k1", "v1", 800000, 1),
                                         Mem("s1", "fact", "call me later", "k1", "v1", 900000, 1),
                                         Mem("s2", "preference", "language is Kannada", "language", "Kannada", 900000, 2),
                                         Mem("s2", "preference", "My preferred language is Kannada", "language", "Kannada", 900000, 2)}] :
                 /\ \A w, v \in Writers : SameFiveTuple(memory[w], memory[v])
                 /\ writers = [pc |-> [w \in Writers |-> "execute"],
                               memory |-> memory,
                               reserved |-> NULL]
           /\ vectors = NO_VECTORS

NextWriters ==
    \E w \in Writers : execute_insert(w) \/ execute_locked(w) \/ commit(w)

SpecWriters == InitWriters /\ [][NextWriters]_vars

\* C20: when both writers of one five-tuple have finished, one has returned
\* the id of a row of the table, the other has returned -1, neither has
\* raised an error, and the table holds one row of the five-tuple.
C20_OneWinsOtherDuplicate ==
    (\A w \in Writers : writers.pc[w] = "done") =>
        /\ \A w \in Writers : ret[w].state = "returned"
        /\ \E w, v \in Writers :
              /\ w # v
              /\ ret[w].memory_id \in RowIds(table)
              /\ ret[v].memory_id = DUPLICATE
        /\ Cardinality({r \in table : SameFiveTuple(r, writers.memory["w1"])}) = 1

\* C22: one retrieve_relevant_memories call with max_memories of 0 or more
\* adds exactly 1 to the access_count (and sets the last_accessed) of exactly
\* the rows it returns; every other row of every session, and every other
\* column, is after the call as before it.
C22_AccessedAreReturned ==
    [][(op'.name = "retrieve_relevant_memories" /\ op'.max_memories >= 0)
        => /\ RowIds(table') = RowIds(table)
           /\ \A r \in table : \E q \in table' :
                 /\ q.id = r.id
                 /\ IF r.id \in Range(Ids(ret'))
                    THEN /\ q.access_count = r.access_count + 1
                         /\ q.last_accessed # NULL
                         /\ q = [r EXCEPT !.access_count = q.access_count,
                                          !.last_accessed = q.last_accessed]
                    ELSE q = r]_vars

(***************************************************************************)
(* SpecDiversity: _apply_diversity_filter on lists sorted by descending    *)
(* relevance_score, for every max_count of 0..MaxMemories.                 *)
(***************************************************************************)
\* scored memories in descending order of relevance_score
DIVERSITY_POOL ==
    <<[id |-> 1, relevance_score |-> 900000000]
          @@ Mem("s1", "preference", "language is Kannada", "language", "Kannada", 900000, 1),
      [id |-> 2, relevance_score |-> 800000000]
          @@ Mem("s1", "fact", "language is Kannada", "language", "is Kannada", 600000, 1),
      [id |-> 3, relevance_score |-> 700000000]
          @@ Mem("s1", "fact", "call after 11 AM", "fact", "after 11 AM", 600000, 2),
      [id |-> 4, relevance_score |-> 600000000]
          @@ Mem("s1", "fact", "busy on Monday", "fact", "Monday", 600000, 3),
      [id |-> 5, relevance_score |-> 500000000]
          @@ Mem("s1", "preference", "I like tea", "language", "tea", 800000, 4),
      [id |-> 6, relevance_score |-> 400000000]
          @@ Mem("s1", "constraint", "call after 11 AM", "time_constraint", "after 11 AM",
                 800000, 5)>>

InitDiversity ==
    /\ table = {}
    /\ seq = 0
    /\ issued = <<>>
    /\ accessCalls = <<>>
    /\ agent = NO_AGENT
    /\ writers = NO_WRITERS
    /\ vectors = NO_VECTORS
    /\ ret = NULL
    /\ \E S \in SUBSET (1..Len(DIVERSITY_POOL)), max_count \in 0..MaxMemories :
          op = [name |-> "input", memories |-> Pick(DIVERSITY_POOL, S, 1),
                max_count |-> max_count]

apply_diversity_filter ==
    /\ op.name = "input"
    /\ ret' = _apply_diversity_filter(op.memories, op.max_count)
    /\ op' = [op EXCEPT !.name = "_apply_diversity_filter"]
    /\ UNCHANGED <<table, seq, issued, accessCalls, agent, writers, vectors>>

SpecDiversity == InitDiversity /\ [][apply_diversity_filter]_vars

\* C21: the result of _apply_diversity_filter(memories, max_memories) is the
\* list of the walk-and-fill rule: walking the sorted list, a memory is
\* admitted exactly when fewer than 2 of its type are admitted so far and
\* (its key is admitted with none so far, or the number admitted so far is
\* less than max_memories / 2 as a real number); the walk stops at
\* max_memories admissions; the slots left are filled from the sorted list
\* in order, the admitted ones skipped.
C21_DiversityRule ==
    op.name = "_apply_diversity_filter" =>
        LET memories == op.memories
            max_memories == op.max_count
            RECURSIVE Walk(_, _)
            Walk(i, admitted) ==
                IF i > Len(memories) \/ Len(admitted) >= max_memories THEN admitted
                ELSE LET m == memories[i]
                         admit ==
                             /\ Cardinality({j \in DOMAIN admitted :
                                                admitted[j].type = m.type}) < 2
                             /\ \/ \A j \in DOMAIN admitted : admitted[j].key # m.key
                                \/ 2 * Len(admitted) < max_memories
                     IN Walk(i + 1, IF admit THEN Append(admitted, m) ELSE admitted)
            RECURSIVE Fill(_, _)
            Fill(i, admitted) ==
                IF i > Len(memories) \/ Len(admitted) >= max_memories THEN admitted
                ELSE Fill(i + 1, IF \E j \in DOMAIN admitted : admitted[j] = memories[i]
                                 THEN admitted ELSE Append(admitted, memories[i]))
        IN ret = Fill(1, Walk(1, <<>>))

(***************************************************************************)
(* SpecMixed: the operations of the Store and of the Retriever that write, *)
(* in any order.                                                           *)
(***************************************************************************)

NextMixed ==
    \/ \E memory \in {Mem("s1", "preference", "My preferred language is Kannada", "language", "Kannada", 900000, 1),
                      Mem("s1", "commitment", "call me tomorrow", "scheduled_action", "me tomorrow", 800000, 2),
                      Mem("s2", "fact", "call after 11 AM", "fact", "call after 11 AM", 600000, 1)} :
                        store_memory(memory)
    \/ \E memory_id \in 1..MaxInserts : update_memory_access(memory_id)
    \/ \E session_id \in Sessions : delete_session_memories(session_id)
    \/ \E session_id \in Sessions, user_message \in {"Can you call me tomorrow?"},
          max_memories \in {1, MaxMemories} :
            retrieve_relevant_memories(session_id, 3, user_message, max_memories,
                                       DEFAULT_MIN_RELEVANCE)

SpecMixed == Init /\ [][NextMixed]_vars

\* C23: whatever the Store and the Retriever do, every row of the table has
\* in session_id, type, content, key, value, confidence, source_turn,
\* created_at and raw_text what the memory it was stored from had, and no
\* step lowers the access_count of a row that stays in the table.
C23_ImmutableButAccess ==
    [][/\ \A q \in table' : \E i \in DOMAIN issued' :
             /\ issued'[i].id = q.id
             /\ \A f \in {"session_id", "type", "content", "key", "value", "confidence",
                          "source_turn", "created_at", "raw_text"} :
                   q[f] = issued'[i].memory[f]
       /\ \A r \in table, q \in table' : q.id = r.id => q.access_count >= r.access_count]_vars

\* a retrieval has raised the access_count of a row of one session after
\* another session was deleted and after a direct update_memory_access
C23_Witness ==
    /\ op.name = "retrieve_relevant_memories"
    /\ ret # <<>>
    /\ \E r \in table : r.access_count >= 2 /\ r.last_accessed # NULL
    /\ Len(issued) > Cardinality(table)

(***************************************************************************)
(* SpecVector: a Store with the similarity backend active.  The process    *)
(* may end at any point (the in-memory index and list are lost, the table  *)
(* and the two files stay) and a Store is opened again on the same         *)
(* database and files.                                                     *)
(***************************************************************************)
VECTOR_CONTENTS == [s1 |-> "call after 11 AM", s2 |-> "busy on Monday"]

\* the memory of turn n: of session s1 for odd n, of s2 for even n
TurnMem(n) ==
    LET session_id == IF n % 2 = 1 THEN "s1" ELSE "s2"
    IN Mem(session_id, "fact", VECTOR_CONTENTS[session_id], "fact",
           VECTOR_CONTENTS[session_id], 600000, n)

\* a Store opened with the backend active on the files as they are
Opened(index_file, map_file) ==
    [enabled |-> TRUE,
     index |-> LoadOrCreate(index_file),
     memory_id_map |-> LoadOrCreate(map_file),
     index_file |-> index_file,
     map_file |-> map_file]

\* the Store after n store_memory calls on a new database with no files,
\* the i-th memory being that of turn i
RECURSIVE VectorStored(_)
VectorStored(n) ==
    IF n = 0 THEN [table |-> {}, seq |-> 0, vectors |-> Opened(NO_FILE, NO_FILE)]
    ELSE LET st == VectorStored(n - 1)
             memory == TurnMem(n)
             r == Insert(st.table, st.seq, memory)
         IN [table |-> r.table, seq |-> r.seq,
             vectors |-> AddToVectorIndex(st.vectors, r.ret, memory.content)]

InitVector ==
    \E n \in {0, 8} :
        LET st == VectorStored(n)
        IN /\ table = st.table
           /\ seq = st.seq
           /\ vectors = st.vectors
           /\ issued = <<>>
           /\ accessCalls = [i \in 1..n |-> 0]
           /\ agent = NO_AGENT
           /\ writers = NO_WRITERS
           /\ op = [name |-> "init"]
           /\ ret = NULL

\* close()
close ==
    /\ vectors' = SaveIndex(vectors)
    /\ op' = [name |-> "close"]
    /\ ret' = NULL
    /\ UNCHANGED <<table, seq, issued, accessCalls, agent, writers>>

\* the process ends, between two calls, and MemoryStorage(db_path) is
\* constructed again: lines 47-48 load the two files, each on its own, a
\* file that cannot be read giving an empty index or an empty list
open(index_readable, map_readable) ==
    /\ vectors' = Opened(IF index_readable THEN vectors.index_file ELSE NO_FILE,
                         IF map_readable THEN vectors.map_file ELSE NO_FILE)
    /\ op' = [name |-> "open", index_readable |-> index_readable,
              map_readable |-> map_readable]
    /\ ret' = NULL
    /\ UNCHANGED <<table, seq, issued, accessCalls, agent, writers>>

\* the process ends inside _save_index, after faiss.write_index and before
\* pickle.dump, the save being that of close(); then the Store is opened again
crash_in_close ==
    /\ vectors' = Opened(File(vectors.index), vectors.map_file)
    /\ op' = [name |-> "crash_in_close"]
    /\ ret' = NULL
    /\ UNCHANGED <<table, seq, issued, accessCalls, agent, writers>>

\* the process ends inside store_memory(memory) after _add_to_vector_index
\* (line 175) and before conn.commit() (line 177): the INSERT is rolled
\* back, the files are as _add_to_vector_index left them; then the Store is
\* opened again
crash_in_store_memory(memory) ==
    LET r == Insert(table, seq, memory)
        added == AddToVectorIndex(vectors, r.ret, memory.content)
    IN /\ r.ret # DUPLICATE
       /\ vectors' = Opened(added.index_file, added.map_file)
       /\ op' = [name |-> "crash_in_store_memory", memory |-> memory]
       /\ ret' = NULL
       /\ UNCHANGED <<table, seq, issued, accessCalls, agent, writers>>

NextVector ==
    \/ \E source_turn \in {seq, seq + 1} : store_memory(TurnMem(source_turn))
    \/ \E session_id \in Sessions : delete_session_memories(session_id)
    \/ close
    \/ \E index_readable, map_readable \in BOOLEAN : open(index_readable, map_readable)
    \/ crash_in_close
    \/ crash_in_store_memory(TurnMem(seq + 1))

SpecVector == InitVector /\ [][NextVector]_vars

\* C24: with the backend active, after every step the list saved in
\* id_map.pkl (empty when there is no readable file) is a prefix of
\* memory_id_map and lacks fewer than 10 of its entries; after close() the
\* two are equal; and the end of the process, wherever it falls, leaves
\* every row of the table in place.
C24_PersistedLagsBounded ==
    [][LET persisted == LoadOrCreate(vectors'.map_file)
           in_memory == vectors'.memory_id_map
       IN /\ Len(persisted) <= Len(in_memory)
          /\ SubSeq(in_memory, 1, Len(persisted)) = persisted
          /\ Len(in_memory) - Len(persisted) < SAVE_EVERY
          /\ op'.name = "close" => persisted = in_memory
          /\ op'.name \in {"open", "crash_in_close", "crash_in_store_memory"}
                => table' = table]_vars

\* close() on a Store whose tenth insert saved the files and whose eleventh
\* did not
C24_Witness ==
    /\ op.name = "close"
    /\ Len(vectors.memory_id_map) > SAVE_EVERY
    /\ Len(vectors.memory_id_map) % SAVE_EVERY # 0
    /\ vectors.map_file = File(vectors.memory_id_map)
    /\ Cardinality(table) > SAVE_EVERY

\* C25: with the backend active, the index holds as many vectors as
\* memory_id_map holds ids, and the vector at each position was computed
\* from the content of the row of the table whose id memory_id_map has at
\* that position.
C25_IndexMatchesMap ==
    vectors.enabled =>
        /\ Len(vectors.index) = Len(vectors.memory_id_map)
        /\ \A i \in DOMAIN vectors.memory_id_map :
              \E r \in table :
                 /\ r.id = vectors.memory_id_map[i]
                 /\ i \in DOMAIN vectors.index
                 /\ vectors.index[i] = Encode(r.content)

(***************************************************************************)
(* SpecTurn: the turns of one session of an agent with memory.             *)
(***************************************************************************)
InitTurn ==
    /\ table = {}
    /\ seq = 0
    /\ op = [name |-> "init"]
    /\ ret = NULL
    /\ issued = <<>>
    /\ accessCalls = <<>>
    /\ agent = NO_AGENT
    /\ writers = NO_WRITERS
    /\ vectors = NO_VECTORS

NextTurn ==
    \E user_message \in AGENT_MESSAGES, turn_number \in {<<>>, <<1>>},
       retrieve_memories \in BOOLEAN :
        process_turn("s1", user_message, turn_number, retrieve_memories)

SpecTurn == InitTurn /\ [][NextTurn]_vars

\* C26: process_turn retrieves before it stores, and only when the turn
\* number is above 1: a call of turn number 1 leaves the access_count of
\* every row as it was and has no active memories, and the active memories
\* of a call are rows that were in the table before the call, so none of the
\* rows the call itself inserted.
C26_RetrieveBeforeInsert ==
    [][op'.name = "process_turn" =>
        LET number == IF op'.turn_number = <<>> THEN agent'.sessions[op'.session_id]
                      ELSE op'.turn_number[1]
        IN /\ number <= 1 =>
                /\ \A r \in table : \E q \in table' :
                      q.id = r.id /\ q.access_count = r.access_count
                /\ ret'.raised = NULL => ret'.response.active_memories = <<>>
           /\ ret'.raised = NULL =>
                \A i \in DOMAIN ret'.response.active_memories :
                    ret'.response.active_memories[i].memory_id \in RowIds(table)]_vars

\* a second turn that retrieved a row of the first turn and stored rows of
\* its own
C26_Witness ==
    /\ op.name = "process_turn"
    /\ ret.raised = NULL
    /\ ret.response.turn_number = 2
    /\ ret.response.active_memories # <<>>
    /\ ret.response.extracted_memories # <<>>
    /\ \E r \in table : r.source_turn = 2 /\ r.access_count = 0
    /\ \E r \in table : r.source_turn = 1 /\ r.access_count = 1

(***************************************************************************)
(* SpecPaths: search_memories_by_content with the backend active and with  *)
(* the text fallback, on Stores that hold some of SEARCH_MEMORIES, before  *)
(* and after delete_session_memories.                                      *)
(***************************************************************************)
\* the backend after _add_to_vector_index for each stored memory in order
RECURSIVE IndexAll(_, _)
IndexAll(v, stored) ==
    IF stored = <<>> THEN v
    ELSE IndexAll(AddToVectorIndex(v, Head(stored).id, Head(stored).memory.content),
                  Tail(stored))

InitPaths ==
    \E S \in SUBSET (1..Len(SEARCH_MEMORIES)), enabled \in BOOLEAN :
        LET r == StoreMemories({}, 0, Pick(SEARCH_MEMORIES, S, 1))
        IN /\ table = r.table
           /\ seq = r.seq
           /\ issued = r.stored
           /\ accessCalls = [i \in Range(r.memory_ids) |-> 0]
           /\ agent = NO_AGENT
           /\ writers = NO_WRITERS
           /\ vectors = IF enabled THEN IndexAll(Opened(NO_FILE, NO_FILE), r.stored)
                        ELSE NO_VECTORS
           /\ op = [name |-> "init"]
           /\ ret = NULL

NextPaths ==
    \/ \E session_id \in Sessions : delete_session_memories(session_id)
    \/ \E query \in {"language", "x"}, session_id \in {"s1", "s2", ""}, top_k \in {0, 1, 2} :
          search_memories_by_content(query, session_id, top_k)

SpecPaths == InitPaths /\ [][NextPaths]_vars

\* C27: what search_memories_by_content(query, session_id, top_k) returns,
\* for a given session_id ("" too) and top_k of 0 or more, is at most top_k
\* memories, each a row of the table as it is now and each of session
\* session_id, with the backend active and with the text fallback.  (A
\* call that raised returned nothing and is not counted against this.)
C27_SameContractBothPaths ==
    (op.name = "search_memories_by_content" /\ op.raised = NULL) =>
        /\ Len(ret) <= op.top_k
        /\ \A i \in DOMAIN ret :
              /\ ret[i] \in table
              /\ ret[i].session_id = op.session_id

(***************************************************************************)
(* SpecResume: an agent created over a database that already holds rows of *)
(* session "s1": some of the memories that turns 1 and 2 of the session    *)
(* would store.                                                            *)
(***************************************************************************)
\* unique_memories of process_turn (lines 129-140), memory being enabled
Candidates(user_message, turn_number, session_id) ==
    unique_memories(filter_memories(
        extract_memories(user_message, turn_number, session_id), AGENT_MIN_CONFIDENCE))

PRIOR_MEMORIES ==
    Candidates("My preferred language is Kannada", 1, "s1")
        \o Candidates("What language do I prefer?", 1, "s1")
        \o Candidates("My preferred language is Kannada", 2, "s1")

InitResume ==
    \E S \in SUBSET (1..Len(PRIOR_MEMORIES)) :
        LET r == StoreMemories({}, 0, Pick(PRIOR_MEMORIES, S, 1))
        IN /\ table = r.table
           /\ seq = r.seq
           /\ issued = r.stored
           /\ accessCalls = [i \in Range(r.memory_ids) |-> 0]
           /\ agent = NO_AGENT
           /\ writers = NO_WRITERS
           /\ vectors = NO_VECTORS
           /\ op = [name |-> "init"]
           /\ ret = NULL

SpecResume == InitResume /\ [][NextTurn]_vars

\* C28: the extracted_memories of process_turn are the candidates the call
\* newly stored: a deduplicated candidate of the turn is reported if and
\* only if the call inserted a row for it, whatever rows (some of the
\* turn's candidates, say) the table held before.
C28_ExtractedAreNewlyStored ==
    [][(op'.name = "process_turn" /\ ret'.raised = NULL) =>
        LET number == ret'.response.turn_number
            candidates == Candidates(op'.user_message, number, op'.session_id)
            Reported(c) == \E i \in DOMAIN ret'.response.extracted_memories :
                              ret'.response.extracted_memories[i]
                                  = [content |-> c.content, type |-> c.type,
                                     confidence |-> c.confidence]
            Inserted(c) == \E r \in table' :
                              /\ r.id \notin RowIds(table)
                              /\ r.session_id = c.session_id /\ r.type = c.type
                              /\ r.key = c.key /\ r.value = c.value
                              /\ r.source_turn = c.source_turn
        IN \A i \in DOMAIN candidates :
              Reported(candidates[i]) <=> Inserted(candidates[i])]_vars

\* C29: a process_turn call without turn_number takes a turn number above
\* the source_turn of every row the Store holds for the session before the
\* call (so above every turn number used before, also by an earlier agent
\* over the same database), and the turn_count of a session never decreases.
C29_AutoTurnAboveAllUsed ==
    [][op'.name = "process_turn" =>
        /\ op'.turn_number = <<>> =>
              \A r \in table :
                  r.session_id = op'.session_id =>
                      agent'.sessions[op'.session_id] > r.source_turn
        /\ \A session_id \in DOMAIN agent.sessions :
              /\ session_id \in DOMAIN agent'.sessions
              /\ agent'.sessions[session_id] >= agent.sessions[session_id]]_vars

\* C30: the five-tuple is unique also when key or value is None:
\* store_memory of a memory without key or without value whose five-tuple
\* (None equal to None) is that of a row of the table returns -1 and leaves
\* the table as it was, so no two rows of one five-tuple exist.
C30_UniqueWithAbsentKeyOrValue ==
    [][(op'.name = "store_memory" /\ (op'.memory.key = NULL \/ op'.memory.value = NULL))
        => /\ (\E r \in table : SameFiveTuple(r, op'.memory))
                => (ret' = DUPLICATE /\ table' = table)
           /\ \A r, q \in table' : SameFiveTuple(r, q) => r = q]_vars

====
